---- MODULE Spec2Model ----
(***************************************************************************)
(* Model of src/src/AudioDriver.cpp (yummyDSP): the I2S audio driver       *)
(* wrapper AudioDriver (setup / enable / readBlock / writeBlock) and the   *)
(* sample codec int2Float / float2Int.                                     *)
(*                                                                         *)
(* Three specifications:                                                    *)
(*   Spec       the caller configures, powers and re-configures the        *)
(*              AudioDriver, the ESP-IDF I2S driver being an environment   *)
(*              that answers every call with some status code;             *)
(*   IoSpec     a stream configured once and then read and written block   *)
(*              by block, the driver answering with a status code and a    *)
(*              byte count;                                                *)
(*   CodecSpec  the two conversion functions applied to a grid of single   *)
(*              precision floats and 32-bit integers, alone and chained.   *)
(*                                                                         *)
(* A single precision float is modelled exactly as a record [m, e] with    *)
(* value m * 2^e, normalised so that 2^23 <= |m| < 2^24 (or m = 0): every  *)
(* operation rounds to nearest, ties to even, as IEEE-754 binary32 does.   *)
(***************************************************************************)
EXTENDS Integers, Sequences, FiniteSets, TLC

(***************************************************************************)
(* Bounds of the model                                                     *)
(***************************************************************************)
\* scaled inputs cover the binades [2^-LowBinades, 2^HighBinades)
LowBinades == 3
HighBinades == 33
\* leading fraction bits of the mantissa that the grid enumerates
MantBits == 2
\* wire samples k << 8 with |k| <= MaxSmallK are enumerated (plus extremes)
MaxSmallK == 4
\* conversions chained on one value
MaxChain == 2
\* setup calls, channel counts
MaxSetups == 2
MaxChannels == 2

(***************************************************************************)
(* Program constants                                                       *)
(***************************************************************************)
ScaleFloat2Int == 8388608
\* ScaleInt2Float = 2^ScaleInt2FloatLog2
ScaleInt2FloatLog2 == -31
BufferSize == 64
I2S_NUM_0 == 0
I2S_NUM_MAX == 2
MclkFactor == 384
TimeoutTicks == 500
SizeofInt32 == 4

Int32Max == 2147483647
Int32Min == -2147483647 - 1

(***************************************************************************)
(* binary32 arithmetic                                                     *)
(***************************************************************************)
Abs(n) == IF n < 0 THEN -n ELSE n
Sgn(n) == IF n < 0 THEN -1 ELSE IF n > 0 THEN 1 ELSE 0

FMantMin == 2^23
FMantMax == 2^24

FZero == [m |-> 0, e |-> 0]
\* number of low bits to drop so that a < 2^24 * 2^s   (a >= 0)
RECURSIVE DropBits(_)
DropBits(a) == IF a < FMantMax THEN 0 ELSE 1 + DropBits(a \div 2)

RECURSIVE FNormUp(_, _)
FNormUp(m, e) == IF Abs(m) >= FMantMin THEN [m |-> m, e |-> e]
                 ELSE FNormUp(2 * m, e - 1)

\* the float nearest to a * 2^e (a > 0), ties to even, with sign sg
FRoundPos(a, e, sg) ==
  LET s    == DropBits(a)
      q    == a \div (2^s)
      r    == a % (2^s)
      half == IF s = 0 THEN 0 ELSE 2^(s - 1)
      up   == s > 0 /\ (r > half \/ (r = half /\ q % 2 = 1))
      q1   == IF up THEN q + 1 ELSE q
  IN IF q1 = FMantMax THEN [m |-> sg * FMantMin, e |-> e + s + 1]
     ELSE FNormUp(sg * q1, e + s)

\* (float) n for a 32-bit integer n
IntToFloat(n) ==
  IF n = 0 THEN FZero
  ELSE IF n = Int32Min THEN [m |-> -FMantMin, e |-> 8]
  ELSE FRoundPos(Abs(n), 0, Sgn(n))

\* f * 2^k, exact
FMulPow2(f, k) == IF f.m = 0 THEN FZero ELSE [m |-> f.m, e |-> f.e + k]

RECURSIVE Log2(_)
Log2(n) == IF n <= 1 THEN 0 ELSE 1 + Log2(n \div 2)

\* f >= 0.5
FGeqHalf(f) == f.m > 0 /\ f.e >= -24

\* f + 1 for f >= 0.5, rounded to nearest even
FAddOne(f) ==
  IF f.e >= 2 THEN f
  ELSE IF f.e = 1 THEN (IF f.m % 2 = 0 THEN f
                        ELSE FRoundPos(2 * f.m + 1, 0, 1))
  ELSE FRoundPos(f.m + 2^(-f.e), f.e, 1)

\* f fits a 32-bit signed integer after truncation toward zero
FInInt32Range(f) == \/ f.e <= 7
                    \/ f.m = -FMantMin /\ f.e = 8

\* f truncated toward zero, for f in the 32-bit range
FTrunc(f) ==
  IF f.e >= 0 THEN f.m * 2^(f.e)
  ELSE IF f.e <= -24 THEN 0
  ELSE Sgn(f.m) * (Abs(f.m) \div 2^(-f.e))

\* f is an integer
FIsInt(f) == \/ f.e >= 0
             \/ f.e > -24 /\ Abs(f.m) % 2^(-f.e) = 0

\* f <= n and f >= n for a float f and an integer |n| <= 2^24, exactly
FLeqInt(f, n) ==
  IF f.m = 0 THEN 0 <= n
  ELSE IF f.e >= 0
       THEN (IF f.e > 6 THEN f.m < 0 ELSE f.m * 2^(f.e) <= n)
  ELSE IF f.e <= -25 THEN (IF f.m > 0 THEN n >= 1 ELSE n >= 0)
  ELSE IF Abs(n) >= 2^(24 + f.e) THEN n > 0
  ELSE f.m <= n * 2^(-f.e)

FGeqInt(f, n) ==
  IF f.m = 0 THEN 0 >= n
  ELSE IF f.e >= 0
       THEN (IF f.e > 6 THEN f.m > 0 ELSE f.m * 2^(f.e) >= n)
  ELSE IF f.e <= -25 THEN (IF f.m < 0 THEN n <= -1 ELSE n <= 0)
  ELSE IF Abs(n) >= 2^(24 + f.e) THEN n < 0
  ELSE f.m >= n * 2^(-f.e)

(***************************************************************************)
(* Sample codec (AudioDriver.cpp:44-57)                                    *)
(***************************************************************************)
\* Arduino's constrain(amt, low, high) macro
constrain(amt, low, high) ==
  IF amt < low THEN low ELSE IF amt > high THEN high ELSE amt

\* float int2Float(int32_t sample): the integer is converted to float
\* (rounded to 24 significant bits) and multiplied by ScaleInt2Float
int2Float(sample) == FMulPow2(IntToFloat(sample), ScaleInt2FloatLog2)

\* sample *= ScaleFloat2Int  (a power of two: exact)
Float2IntScaled(sample) == FMulPow2(sample, Log2(ScaleFloat2Int))

\* a float2Int that never adds 1
Float2IntNoAdd(scaled) == scaled
\* (int32_t)(sample >= 0.5) ? sample+1 : sample -- the cast binds to the
\* condition, so the selected operand is still a float
Float2IntSelected(scaled) ==
  IF FGeqHalf(scaled) THEN FAddOne(scaled) ELSE scaled

\* values an out-of-range float -> int32_t conversion can yield (undefined
\* behaviour): INT_MIN (x86 cvttss2si), the extreme of matching sign
\* (saturating FPUs), the low 32 bits of a value >= 2^32 (modular truncation)
UBConversion(v) == {Int32Min, IF v.m > 0 THEN Int32Max ELSE Int32Min, 0}

\* int32_t y = <float>: implicit conversion, truncation toward zero
Float2IntConverted(v) ==
  IF FInInt32Range(v) THEN {[y |-> FTrunc(v), ovf |-> FALSE]}
  ELSE {[y |-> u, ovf |-> TRUE] : u \in UBConversion(v)}

\* y = constrain(y, -ScaleFloat2Int, ScaleFloat2Int-1)
Float2IntClamped(y) == constrain(y, -ScaleFloat2Int, ScaleFloat2Int - 1)

\* y << 8  (|y| <= 2^23 after the clamp: no bit is shifted out; for
\* negative y gcc defines the shift as the multiplication by 2^8)
Shl8(y) == y * 256

\* int32_t float2Int(float sample): the set of its possible outcomes, each
\* with the pre-clamp integer, whether the conversion overflowed, and the
\* returned wire sample
float2Int(sample) ==
  { [pre |-> c.y, ovf |-> c.ovf, ret |-> Shl8(Float2IntClamped(c.y))] :
      c \in Float2IntConverted(Float2IntSelected(Float2IntScaled(sample))) }

(***************************************************************************)
(* Inputs of the codec                                                     *)
(***************************************************************************)
Mantissas == { FMantMin + j * 2^(23 - MantBits) : j \in 0..(2^MantBits - 1) }
             \cup { FMantMin + 1, FMantMax - 1 }

\* host samples x with |x * 2^23| in [2^-LowBinades, 2^HighBinades), and 0
HostSamples ==
  { [m |-> sg * m, e |-> b - 23 - Log2(ScaleFloat2Int)] :
      sg \in {-1, 1}, m \in Mantissas, b \in (-LowBinades)..(HighBinades - 1) }
  \cup { FZero }

\* valid wire samples k << 8, -2^23 <= k <= 2^23 - 1
WireKs == ((-MaxSmallK)..MaxSmallK)
          \cup { ScaleFloat2Int - 1, ScaleFloat2Int - 2,
                 -ScaleFloat2Int, -ScaleFloat2Int + 1,
                 ScaleFloat2Int \div 2, -(ScaleFloat2Int \div 2) }
ValidWires == { Shl8(k) : k \in WireKs }
\* 32-bit words that are not valid wire samples (low bits set)
OtherWords == { 1, -1, 257, 16777217, Int32Max }

IsValidWire(w) == /\ w % 256 = 0
                  /\ -ScaleFloat2Int <= w \div 256
                  /\ w \div 256 <= ScaleFloat2Int - 1

(***************************************************************************)
(* State                                                                   *)
(***************************************************************************)
VARIABLES
  \* AudioDriver object fields
  fs, channelCount, i2sPort, enablePin,
  i2sBufferSize, i2sReadBuffer, i2sWriteBuffer,
  \* function-local statics of setup: initialised on the first call only
  staticsInit, i2s_config, pin_config,
  \* what the caller and the environment observe of the last operation:
  \* its name, its arguments, the driver calls it made (with what the
  \* driver answered), its return value, whether it printed a diagnostic
  lastOp, args, calls, ret, diag,
  \* the level last written to a GPIO pin, the number of setup calls
  gpio, setups,
  \* codec: the value in hand, the value the chain started from, the
  \* conversions applied so far, and what the last float2Int observed
  cval, corig, csteps, cpre, covf

objVars == <<fs, channelCount, i2sPort, enablePin,
             i2sBufferSize, i2sReadBuffer, i2sWriteBuffer>>
staticVars == <<staticsInit, i2s_config, pin_config>>
obsVars == <<lastOp, args, calls, ret, diag>>
driverVars == <<objVars, staticVars, obsVars, gpio, setups>>
codecVars == <<cval, corig, csteps, cpre, covf>>
vars == <<driverVars, codecVars>>

(***************************************************************************)
(* Environment of the AudioDriver: caller inputs and driver answers        *)
(***************************************************************************)
\* esp_err_t values the I2S driver returns: ESP_OK, ESP_FAIL and the
\* smallest positive ESP_ERR_* code (ESP_ERR_NO_MEM = 0x101)
StatusCodes == {0, -1, 257}
\* instance selectors, in and out of [I2S_NUM_0, I2S_NUM_MAX)
Ports == (I2S_NUM_0 - 1)..(I2S_NUM_MAX + 1)
\* wire samples the hardware delivers in one block
BlockData == { Shl8(1), Shl8(-2) }

Zeros(n) == [j \in 1..n |-> 0]

NoConfig == [sample_rate |-> 0, bits_per_sample |-> 0, dma_buf_count |-> 0,
             dma_buf_len |-> 0, use_apll |-> FALSE,
             tx_desc_auto_clear |-> FALSE, fixed_mclk |-> 0]
NoPins == [bck_io_num |-> 0, ws_io_num |-> 0,
           data_out_num |-> 0, data_in_num |-> 0]

DriverInit ==
  /\ fs = 0 /\ channelCount = 0 /\ i2sPort = I2S_NUM_0 /\ enablePin = 0
  /\ i2sBufferSize = 0
  /\ i2sReadBuffer = <<>> /\ i2sWriteBuffer = <<>>
  /\ staticsInit = FALSE /\ i2s_config = NoConfig /\ pin_config = NoPins
  /\ lastOp = "none" /\ args = [fs |-> 0, channelCount |-> 0, port |-> 0,
                                 pins |-> NoPins, enablePin |-> 0]
  /\ calls = <<>> /\ ret = 0 /\ diag = FALSE
  /\ gpio = [pin |-> 0, level |-> "unset"]
  /\ setups = 0

CodecIdle ==
  /\ cval = [t |-> "int", f |-> FZero, i |-> 0]
  /\ corig = cval
  /\ csteps = <<>>
  /\ cpre = 0
  /\ covf = FALSE

(***************************************************************************)
(* AudioDriver (AudioDriver.cpp:60-149)                                    *)
(***************************************************************************)
\* this->i2sPort = constrain(i2s_port, I2S_NUM_0, I2S_NUM_MAX)
ClampedPort(i2s_port) == constrain(i2s_port, I2S_NUM_0, I2S_NUM_MAX)

\* the initialiser of the static i2s_config, evaluated with the fs and
\* mclk_rate of the call that runs it
ConfigOf(rate, mclk_rate) ==
  [sample_rate |-> rate, bits_per_sample |-> 24, dma_buf_count |-> 2,
   dma_buf_len |-> BufferSize, use_apll |-> TRUE,
   tx_desc_auto_clear |-> TRUE, fixed_mclk |-> mclk_rate]

\* the initialiser of the static pin_config
PinConfigOf(bitClkPin, lrClkPin, dataOutPin, dataInPin) ==
  [bck_io_num |-> bitClkPin, ws_io_num |-> lrClkPin,
   data_out_num |-> dataOutPin, data_in_num |-> dataInPin]

\* a setup that keeps only the status of its last driver call
SetupStatusLast(st) == st[4]
\* esp_err_t err = install; err += set_pin; err += rates; err += zero
SetupStatus(st) == st[1] + st[2] + st[3] + st[4]

\* int AudioDriver::setup(fs, channelCount, pins..., enablePin, i2s_port),
\* the driver answering st[1..4] to its four calls
Setup(rate, cc, p, port, st) ==
  LET thePort   == ClampedPort(port)
      mclk_rate == rate * MclkFactor
      theConfig == IF staticsInit THEN i2s_config
                   ELSE ConfigOf(rate, mclk_rate)
      thePins   == IF staticsInit THEN pin_config
                   ELSE PinConfigOf(p.bck, p.ws, p.dout, p.din)
  IN /\ setups < MaxSetups
     /\ fs' = rate
     /\ channelCount' = cc
     /\ i2sPort' = thePort
     /\ enablePin' = p.en
     /\ gpio' = [pin |-> p.en, level |-> "LOW"]
     /\ staticsInit' = TRUE
     /\ i2s_config' = theConfig
     /\ pin_config' = thePins
     /\ calls' = << [fn |-> "i2s_driver_install", port |-> thePort,
                     config |-> theConfig, status |-> st[1]],
                    [fn |-> "i2s_set_pin", port |-> thePort,
                     pins |-> thePins, status |-> st[2]],
                    [fn |-> "i2s_set_sample_rates", port |-> thePort,
                     rate |-> rate, status |-> st[3]],
                    [fn |-> "i2s_zero_dma_buffer", port |-> thePort,
                     status |-> st[4]] >>
     /\ i2sBufferSize' = cc * BufferSize
     /\ i2sReadBuffer' = Zeros(cc * BufferSize)
     /\ i2sWriteBuffer' = Zeros(cc * BufferSize)
     /\ ret' = SetupStatus(st)
     /\ diag' = FALSE
     /\ lastOp' = "setup"
     /\ args' = [fs |-> rate, channelCount |-> cc, port |-> port,
                 pins |-> PinConfigOf(p.bck, p.ws, p.dout, p.din),
                 enablePin |-> p.en]
     /\ setups' = setups + 1
     /\ UNCHANGED codecVars

\* bool AudioDriver::enable(bool powerOn)
Enable(powerOn) ==
  /\ setups > 0
  /\ gpio' = [pin |-> enablePin, level |-> IF powerOn THEN "HIGH" ELSE "LOW"]
  /\ calls' = <<>>
  /\ ret' = 1
  /\ diag' = FALSE
  /\ lastOp' = "enable"
  /\ UNCHANGED <<objVars, staticVars, args, setups, codecVars>>

\* a readBlock that counts samples where the driver counts bytes
ReadBytesInSamples == i2sBufferSize
\* i2sBufferSize * sizeof(int32_t)
ReadBytes == i2sBufferSize * SizeofInt32
\* channelCount * AudioDriver::BufferSize * sizeof(int32_t)
WriteBytes == channelCount * BufferSize * SizeofInt32

\* if (err || bytesRead < (i2sBufferSize * sizeof(int32_t)))
ReadDiag(err, bytesRead, requested) == err # 0 \/ bytesRead < requested

\* a readBlock that turns a short transfer into a failure
ReadStatusEscalated(err, bytesRead, requested) ==
  IF err = 0 /\ bytesRead < requested THEN -1 ELSE err
\* return err
ReadStatus(err, bytesRead, requested) == err

\* int AudioDriver::readBlock(), the driver answering err and delivering
\* bytesRead bytes of samples equal to v
ReadBlock(err, bytesRead, v) ==
  LET requested == ReadBytes
      delivered == bytesRead \div SizeofInt32
  IN /\ setups > 0
     /\ bytesRead <= requested
     /\ calls' = << [fn |-> "i2s_read", port |-> i2sPort,
                     size |-> requested, timeout |-> TimeoutTicks,
                     status |-> err, bytes |-> bytesRead,
                     data |-> v] >>
     /\ i2sReadBuffer' = [j \in 1..Len(i2sReadBuffer) |->
                            IF j <= delivered THEN v ELSE i2sReadBuffer[j]]
     /\ diag' = ReadDiag(err, bytesRead, requested)
     /\ ret' = ReadStatus(err, bytesRead, requested)
     /\ lastOp' = "readBlock"
     /\ UNCHANGED <<fs, channelCount, i2sPort, enablePin, i2sBufferSize,
                    i2sWriteBuffer, staticVars, args, gpio, setups,
                    codecVars>>

\* a writeBlock that reports like readBlock does
WriteDiagLikeRead(err, bytesWritten, requested) ==
  err # 0 \/ bytesWritten < requested
\* if (bytesWritten < 1)
WriteDiag(err, bytesWritten, requested) == bytesWritten < 1

\* int AudioDriver::writeBlock(), the driver answering err and accepting
\* bytesWritten bytes
WriteBlock(err, bytesWritten) ==
  LET requested == WriteBytes
  IN /\ setups > 0
     /\ bytesWritten <= requested
     /\ calls' = << [fn |-> "i2s_write", port |-> i2sPort,
                     size |-> requested, timeout |-> TimeoutTicks,
                     status |-> err, bytes |-> bytesWritten] >>
     /\ diag' = WriteDiag(err, bytesWritten, requested)
     /\ ret' = err
     /\ lastOp' = "writeBlock"
     /\ UNCHANGED <<objVars, staticVars, args, gpio, setups, codecVars>>

\* the caller fills the write buffer with one block of samples
FillWriteBuffer(v) ==
  /\ setups > 0
  /\ i2sWriteBuffer' = [j \in 1..Len(i2sWriteBuffer) |-> v]
  /\ calls' = <<>>
  /\ ret' = 0
  /\ diag' = FALSE
  /\ lastOp' = "fill"
  /\ UNCHANGED <<fs, channelCount, i2sPort, enablePin, i2sBufferSize,
                 i2sReadBuffer, staticVars, args, gpio, setups, codecVars>>

\* byte counts the driver reports for a transfer of `requested` bytes
ByteCounts(requested) == {0, SizeofInt32, requested}

\* caller configurations: a sample rate with the pins of a board
Boards == { [rate |-> 48000,
             pins |-> [bck |-> 26, ws |-> 25, dout |-> 22, din |-> 19,
                       en |-> 21]],
            [rate |-> 44100,
             pins |-> [bck |-> 14, ws |-> 15, dout |-> 32, din |-> 35,
                       en |-> 33]] }

DoSetup ==
  \E b \in Boards, cc \in 1..MaxChannels,
     port \in Ports, st \in [1..4 -> StatusCodes] :
       Setup(b.rate, cc, b.pins, port, st)
DoEnable == \E powerOn \in BOOLEAN : Enable(powerOn)
DoReadBlock ==
  \E err \in StatusCodes, v \in BlockData,
     n \in ByteCounts(ReadBytes) : ReadBlock(err, n, v)
DoWriteBlock ==
  \E err \in StatusCodes,
     n \in ByteCounts(WriteBytes) : WriteBlock(err, n)
DoFill == \E v \in BlockData : FillWriteBuffer(v)

Init == DriverInit /\ CodecIdle

\* the first configuration of the stream
FirstSetup == setups = 0 /\ DoSetup
\* a later configuration: setup leaves the codec powered down, so the caller
\* has called enable since the previous setup
ReSetup == setups > 0 /\ lastOp = "enable" /\ DoSetup

\* Spec: the caller configures, powers and re-configures the driver
Next == FirstSetup \/ ReSetup \/ DoEnable
Spec == Init /\ [][Next]_vars

\* IoSpec: a stream that is configured once and then used block by block
IoNext == FirstSetup \/ DoEnable \/ DoReadBlock \/ DoWriteBlock \/ DoFill
IoSpec == Init /\ [][IoNext]_vars

(***************************************************************************)
(* AudioDriver properties                                                  *)
(***************************************************************************)
ValidInstances == I2S_NUM_0..(I2S_NUM_MAX - 1)
AllZero(buf) == \A j \in 1..Len(buf) : buf[j] = 0
IsTransfer(c) == c.fn \in {"i2s_read", "i2s_write"}
SetupCallNames == <<"i2s_driver_install", "i2s_set_pin",
                    "i2s_set_sample_rates", "i2s_zero_dma_buffer">>

\* C1: whatever selector setup is given, the instance it stores and hands to
\* every driver call (install, pin bind, rate set, buffer zero, and the later
\* reads and writes) is a valid hardware instance
C1_InstanceIsValid ==
  setups > 0 =>
    /\ i2sPort \in ValidInstances
    /\ \A j \in 1..Len(calls) : calls[j].port \in ValidInstances

\* C4: setup makes its four driver calls whatever they answer, and returns
\* non-zero exactly when one of them answered non-zero
C4_SetupStatusAggregates ==
  lastOp = "setup" =>
    /\ Len(calls) = 4
    /\ \A j \in 1..4 : calls[j].fn = SetupCallNames[j]
    /\ (ret # 0) <=> (\E j \in 1..4 : calls[j].status # 0)

C4_Witness ==
  /\ lastOp = "setup"
  /\ Len(calls) = 4
  /\ calls[1].status = -1 /\ calls[2].status = 257
  /\ calls[3].status = -1 /\ calls[4].status = 0
  /\ ret # 0

\* the last operation was a readBlock that the driver served short
ShortRead ==
  /\ lastOp = "readBlock"
  /\ Len(calls) = 1
  /\ calls[1].bytes < calls[1].size
DeliveredIsNew ==
  \A j \in 1..(calls[1].bytes \div SizeofInt32) :
     i2sReadBuffer[j] = calls[1].data

\* C5 as claimed: a short read returns a non-success status, whatever the
\* driver's own status, and the delivered part of the buffer is new
C5_ShortReadFails == ShortRead => (ret # 0 /\ DeliveredIsNew)

\* C5 amended: a short read returns the driver's own status (success when
\* the driver says success), prints a diagnostic, and the delivered part of
\* the buffer is new
C5_ShortReadReturnsDriverStatus ==
  ShortRead => (ret = calls[1].status /\ diag /\ DeliveredIsNew)

C5_Witness ==
  /\ ShortRead
  /\ calls[1].bytes = SizeofInt32
  /\ calls[1].status = 0 /\ ret = 0 /\ diag
  /\ i2sReadBuffer[1] = calls[1].data
  /\ i2sReadBuffer[2] # calls[1].data

\* C6 as claimed: readBlock and writeBlock call the driver once, return its
\* raw status, and print a diagnostic whenever the transfer is short or the
\* status is non-zero
C6_EveryShortfallDiagnosed ==
  lastOp \in {"readBlock", "writeBlock"} =>
    /\ Len(calls) = 1
    /\ ret = calls[1].status
    /\ (calls[1].bytes < calls[1].size \/ calls[1].status # 0) => diag

\* C6 amended: both call the driver once and return its raw status;
\* readBlock prints exactly when the transfer is short or the status is
\* non-zero, writeBlock exactly when no byte was written
C6_DiagnosticPerDirection ==
  /\ lastOp \in {"readBlock", "writeBlock"} =>
       /\ Len(calls) = 1
       /\ IsTransfer(calls[1])
       /\ ret = calls[1].status
  /\ lastOp = "readBlock" =>
       (diag <=> (calls[1].bytes < calls[1].size \/ calls[1].status # 0))
  /\ lastOp = "writeBlock" => (diag <=> calls[1].bytes = 0)

C6_Witness ==
  /\ lastOp = "writeBlock"
  /\ calls[1].bytes = SizeofInt32 /\ calls[1].bytes < calls[1].size
  /\ calls[1].status = 257 /\ ret = 257
  /\ ~diag

\* C7: after setup with channel count c both buffers hold c * BufferSize
\* zero samples; every read and write asks for c * BufferSize * 4 bytes with
\* a timeout of 500, which is what the buffers hold (c = 2: 128 samples, 512
\* bytes)
C7_BlockGeometry ==
  LET c == args.channelCount IN
  /\ lastOp = "setup" =>
       /\ AllZero(i2sReadBuffer) /\ AllZero(i2sWriteBuffer)
  /\ setups > 0 =>
       /\ Len(i2sReadBuffer) = c * BufferSize
       /\ Len(i2sWriteBuffer) = c * BufferSize
       /\ c = 2 => Len(i2sReadBuffer) = 128 /\ Len(i2sWriteBuffer) = 128
       /\ \A j \in 1..Len(calls) : IsTransfer(calls[j]) =>
            /\ calls[j].size = c * BufferSize * 4
            /\ calls[j].timeout = 500
            /\ calls[j].size <= Len(i2sReadBuffer) * 4
            /\ calls[j].size <= Len(i2sWriteBuffer) * 4
            /\ c = 2 => calls[j].size = 512

C7_Witness ==
  /\ lastOp = "readBlock"
  /\ args.channelCount = 2
  /\ Len(i2sReadBuffer) = 128
  /\ calls[1].size = 512 /\ calls[1].bytes = 512
  /\ i2sReadBuffer[128] = calls[1].data

\* C8: every setup call hands the driver install that call's sample rate
\* and sampleRate * 384 as master clock, binds that call's pins, and installs
\* the rate it then sets explicitly
C8_EverySetupUsesItsArguments ==
  lastOp = "setup" =>
    /\ calls[1].config.sample_rate = args.fs
    /\ calls[1].config.fixed_mclk = args.fs * 384
    /\ calls[2].pins = args.pins
    /\ calls[1].config.sample_rate = calls[3].rate

(***************************************************************************)
(* Codec state machine                                                     *)
(***************************************************************************)
\* a value in hand: a float (field f) or a 32-bit integer (field i)
F(x) == [t |-> "float", f |-> x, i |-> 0]
I(w) == [t |-> "int", f |-> FZero, i |-> w]

CodecInputs ==
  /\ cval \in { F(x) : x \in HostSamples }
              \cup { I(w) : w \in ValidWires \cup OtherWords }
  /\ corig = cval
  /\ csteps = <<>>
  /\ cpre = 0
  /\ covf = FALSE

\* the caller converts a host sample to the wire format
Float2IntStep ==
  /\ cval.t = "float"
  /\ Len(csteps) < MaxChain
  /\ \E o \in float2Int(cval.f) :
       /\ cval' = I(o.ret)
       /\ cpre' = o.pre
       /\ covf' = o.ovf
  /\ csteps' = Append(csteps, "float2Int")
  /\ UNCHANGED <<corig, driverVars>>

\* the caller converts a wire sample to the host format
Int2FloatStep ==
  /\ cval.t = "int"
  /\ Len(csteps) < MaxChain
  /\ cval' = F(int2Float(cval.i))
  /\ csteps' = Append(csteps, "int2Float")
  /\ UNCHANGED <<corig, cpre, covf, driverVars>>

CodecNext == Float2IntStep \/ Int2FloatStep

CodecInit == DriverInit /\ CodecInputs
CodecSpec == CodecInit /\ [][CodecNext]_vars

(***************************************************************************)
(* Codec properties                                                        *)
(***************************************************************************)
\* the scaled value x * 2^23 of the host sample the chain started from
OrigScaled == Float2IntScaled(corig.f)
\* the clamp of float2Int left the converted integer unchanged
Unclamped == /\ ~covf
             /\ -ScaleFloat2Int <= cpre
             /\ cpre <= ScaleFloat2Int - 1
\* the fractional part of f is exactly one half
FHasHalfFrac(f) == FIsInt(FMulPow2(f, 1)) /\ ~FIsInt(f)
\* the largest float below a power of two 2^j, 0 <= j <= 22
FJustBelowPow2(f) == f.m = FMantMax - 1 /\ f.e >= -24 /\ f.e <= -2
\* -1.0 <= x < 1.0
InUnitRange(x) == x.m = 0 \/ x.e < -23 \/ (x.m = -FMantMin /\ x.e = -23)

AfterToWire == csteps = <<"float2Int">> /\ corig.t = "float"
AfterHostRoundTrip ==
  csteps = <<"float2Int", "int2Float">> /\ corig.t = "float"
AfterWireRoundTrip ==
  csteps = <<"int2Float", "float2Int">> /\ corig.t = "int"

\* C2: toWire is total and clamping: the result is k << 8 with k in
\* [-2^23, 2^23 - 1], values beyond the range go to the bound of their sign,
\* and no 32-bit overflow happens before the clamp
C2_ToWireClampsWithoutOverflow ==
  AfterToWire =>
    /\ IsValidWire(cval.i)
    /\ ~covf
    /\ FGeqInt(OrigScaled, ScaleFloat2Int) =>
         cval.i = Shl8(ScaleFloat2Int - 1)
    /\ FLeqInt(OrigScaled, -ScaleFloat2Int) =>
         cval.i = Shl8(-ScaleFloat2Int)

\* C3: for x in [-1, 1) that is not clamped, toFloat(toWire(x)) is within
\* one quantization step 2^-23 of x
C3_HostRoundTripWithinOneStep ==
  (AfterHostRoundTrip /\ InUnitRange(corig.f) /\ Unclamped) =>
    LET back == FMulPow2(cval.f, Log2(ScaleFloat2Int))
    IN /\ FIsInt(back)
       /\ FLeqInt(OrigScaled, FTrunc(back) + 1)
       /\ FGeqInt(OrigScaled, FTrunc(back) - 1)

\* C9 as claimed: fractional part exactly 0.5 (either sign) gives
\* trunc(scaled) + 1; scaled >= 0.5 gives the nearest integer; scaled < 0.5
\* gives trunc(scaled)
C9_RoundToNearest ==
  (AfterToWire /\ Unclamped) =>
    /\ FHasHalfFrac(OrigScaled) => cpre = FTrunc(OrigScaled) + 1
    /\ FGeqHalf(OrigScaled) =>
         /\ FLeqInt(FMulPow2(OrigScaled, 1), 2 * cpre + 1)
         /\ FGeqInt(FMulPow2(OrigScaled, 1), 2 * cpre - 1)
    /\ ~FGeqHalf(OrigScaled) => cpre = FTrunc(OrigScaled)

\* C9 amended: scaled >= 0.5 gives trunc(scaled) + 1 whatever the fractional
\* part (trunc(scaled) + 2 for the largest float below a power of two, where
\* the float addition rounds up); scaled < 0.5, negative halves included,
\* gives trunc(scaled)
C9_AddOneFromHalf ==
  (AfterToWire /\ Unclamped) =>
    /\ (FGeqHalf(OrigScaled) /\ ~FJustBelowPow2(OrigScaled)) =>
         cpre = FTrunc(OrigScaled) + 1
    /\ (FGeqHalf(OrigScaled) /\ FJustBelowPow2(OrigScaled)) =>
         cpre = FTrunc(OrigScaled) + 2
    /\ ~FGeqHalf(OrigScaled) => cpre = FTrunc(OrigScaled)

C9_Witness ==
  /\ AfterToWire /\ Unclamped
  /\ FHasHalfFrac(OrigScaled) /\ FGeqHalf(OrigScaled)
  /\ cpre = FTrunc(OrigScaled) + 1

\* C10: toWire(toFloat(w)) = w for every valid wire sample w
C10_WireRoundTripIdentity ==
  (AfterWireRoundTrip /\ IsValidWire(corig.i)) => cval.i = corig.i

====
